---- MODULE Spec2Model ----
(***************************************************************************)
(* The user form of fcrfabiano/React-Hook-Form: the zod schema             *)
(* createUserFormSchema, the resolver built from it, react-hook-form's     *)
(* handleSubmit driving createUser, and the field-array operations.        *)
(*                                                                         *)
(* Two builds of the form exist in the sources: src/unnamed/part_000 (with *)
(* the avatar rule and the storage upload) and src/src/App.tsx (without    *)
(* avatar, with the gmail refinement and the knowledge field).  The        *)
(* variable `variant` says which one is running.                           *)
(*                                                                         *)
(* Strings are sequences of one-character strings, so that trim, split,    *)
(* join, upper- and lower-casing are computed and not assumed.  Messages   *)
(* are the literals of the sources, written without diacritics.            *)
(***************************************************************************)
EXTENDS Integers, Sequences, FiniteSets, TLC

VARIABLES
    variant,            \* "part_000" or "App": which source file is the form
    avatar,             \* the file input's FileList: a sequence of 0 or 1 files
    name,               \* the registered text inputs (raw values)
    email,
    password,
    techs,              \* useFieldArray `fields`: sequence of [title, knowledge]
    errors,             \* formState.errors: set of [path, message], one per path
    isSubmitting,       \* formState.isSubmitting
    isSubmitted,        \* formState.isSubmitted
    isSubmitSuccessful, \* formState.isSubmitSuccessful
    output,             \* useState('') `output`: <<>> or <<rendered payload>>
    pc,                 \* position of handleSubmit: "idle", "validating", "resolved"
    input,              \* the values handed to the resolver, <<>> when none
    result,             \* the resolver's answer, <<>> when none
    pending,            \* the data createUser holds while awaiting upload
    called,             \* history: createUser invocations of the last submit
    lastUpload          \* history: outcome of the upload of the last submit

vars == <<variant, avatar, name, email, password, techs, errors, isSubmitting,
          isSubmitted, isSubmitSuccessful, output, pc, input, result, pending,
          called, lastUpload>>

formVars == <<avatar, name, email, password, techs>>

-----------------------------------------------------------------------------
(* Bounds of the model *)

MaxTechs == 2

-----------------------------------------------------------------------------
(* Characters and strings *)

LowerChars == <<"a","b","c","d","e","f","g","h","i","j","k","l","m",
                "n","o","p","q","r","s","t","u","v","w","x","y","z">>

UpperChars == <<"A","B","C","D","E","F","G","H","I","J","K","L","M",
                "N","O","P","Q","R","S","T","U","V","W","X","Y","Z">>

DigitChars == {"0","1","2","3","4","5","6","7","8","9"}

LowerSet == {LowerChars[i] : i \in 1..Len(LowerChars)}

UpperSet == {UpperChars[i] : i \in 1..Len(UpperChars)}

\* The upper-case letter of each lower-case letter, and back
UpperOf == [c \in LowerSet |->
              UpperChars[CHOOSE i \in 1..Len(LowerChars) : LowerChars[i] = c]]

LowerOf == [c \in UpperSet |->
              LowerChars[CHOOSE i \in 1..Len(UpperChars) : UpperChars[i] = c]]

IsLower(c) == c \in LowerSet

IsUpper(c) == c \in UpperSet

IsDigit(c) == c \in DigitChars

IsAlnum(c) == IsLower(c) \/ IsUpper(c) \/ IsDigit(c)

toUpperChar(c) == IF IsLower(c) THEN UpperOf[c] ELSE c

toLowerChar(c) == IF IsUpper(c) THEN LowerOf[c] ELSE c

\* String.prototype.toLowerCase
toLowerCase(s) == [i \in 1..Len(s) |-> toLowerChar(s[i])]

SetMin(S) == CHOOSE x \in S : \A y \in S : x <= y

SetMax(S) == CHOOSE x \in S : \A y \in S : x >= y

\* String.prototype.trim
trim(s) ==
    LET keep == {i \in 1..Len(s) : s[i] # " "}
    IN  IF keep = {} THEN <<>> ELSE SubSeq(s, SetMin(keep), SetMax(keep))

\* String.prototype.split(' '): always at least one segment, empty segments kept
RECURSIVE split(_)
split(s) ==
    LET sp == {i \in 1..Len(s) : s[i] = " "}
    IN  IF sp = {} THEN <<s>>
        ELSE <<SubSeq(s, 1, SetMin(sp) - 1)>>
                 \o split(SubSeq(s, SetMin(sp) + 1, Len(s)))

\* Array.prototype.join(' ')
RECURSIVE join(_)
join(words) ==
    IF Len(words) = 0 THEN <<>>
    ELSE IF Len(words) = 1 THEN words[1]
    ELSE words[1] \o <<" ">> \o join(Tail(words))

\* String.prototype.endsWith
endsWith(s, suffix) ==
    /\ Len(s) >= Len(suffix)
    /\ SubSeq(s, Len(s) - Len(suffix) + 1, Len(s)) = suffix

RECURSIVE Concat(_)
Concat(ss) == IF Len(ss) = 0 THEN <<>> ELSE Head(ss) \o Concat(Tail(ss))

-----------------------------------------------------------------------------
(* Messages of the schema *)

MsgAvatarRequired == "A imagem de perfil e obrigatoria"
MsgAvatarMaxSize == "Tamanho maximo de 5MB"
MsgAvatarFormat == "Formato de imagem invalido"
MsgNameRequired == "O nome e obrigatorio"
MsgEmailRequired == "O e-mail e obrigatorio"
MsgEmailFormat == "Formato de e-mail invalido"
MsgEmailGmail == "O e-mail precisa ser gmail"
MsgPasswordRequired == "A senha e obrigatoria"
MsgPasswordMin(v) ==
    IF v = "App" THEN "A senha precisa de no minimo 6 caracteres"
    ELSE "A senha precisa ter no minimo 6 caracteres"
MsgTitleRequired(v) ==
    IF v = "App" THEN "O titulo e obrigatorio"
    ELSE "O nome da tecnologia e obrigatorio"
MsgKnowledgeMin == "Number must be greater than or equal to 1"
MsgKnowledgeMax == "Number must be less than or equal to 100"
MsgMinTechs == "Insira pelo menos 2 tecnologias"

\* A field path: a scalar field, or property `prop` of techs[index] (0-based)
FieldPath(field) == [field |-> field, index |-> -1, prop |-> ""]

TechPath(index, prop) == [field |-> "techs", index |-> index, prop |-> prop]

Issue(path, message) == [path |-> path, message |-> message]

-----------------------------------------------------------------------------
(* createUserFormSchema: each key's schema returns                         *)
(*   status  "valid" | "dirty" (issues) | "threw" (an exception escaped)   *)
(*   value   the parsed value                                              *)
(*   issues  issues added while the key is parsed (string and array        *)
(*           checks run inside _parse)                                     *)
(*   late    issues added by .refine callbacks, which under parseAsync run *)
(*           in promise continuations, after every key's _parse            *)

MAX_FILE_SIZE == 5 * 1024 * 1024

ACCEPTED_IMAGE_TYPES == {"image/jpeg", "image/jpg", "image/png", "image/webp"}

NoFile == [size |-> 0, type |-> ""]

\* avatar: three refinements, all executed, then the transform.  On an empty
\* FileList the first refinement adds its issue and the second dereferences
\* files.item(0), which is null.
avatarSchema(files) ==
    IF Len(files) = 0
    THEN [status |-> "threw", value |-> NoFile, issues |-> <<>>, late |-> <<>>]
    ELSE LET f == files[1]
             tooLarge == IF f.size <= MAX_FILE_SIZE THEN <<>>
                         ELSE <<Issue(FieldPath("avatar"), MsgAvatarMaxSize)>>
             badType == IF f.type \in ACCEPTED_IMAGE_TYPES THEN <<>>
                        ELSE <<Issue(FieldPath("avatar"), MsgAvatarFormat)>>
         IN  [status |-> IF tooLarge \o badType = <<>> THEN "valid" ELSE "dirty",
              value |-> f, issues |-> <<>>, late |-> tooLarge \o badType]

\* word[0].toLocaleUpperCase().concat(word.substring(1)), for a non-empty word
capitalize_keepsHead(word) == <<toUpperChar(word[1])>> \o word

capitalize(word) == <<toUpperChar(word[1])>> \o SubSeq(word, 2, Len(word))

\* The name transform.  word[0] of an empty segment is undefined, and
\* undefined.toLocaleUpperCase() raises TypeError.
nameTransform(n) ==
    LET words == split(trim(n))
    IN  IF \E i \in 1..Len(words) : words[i] = <<>>
        THEN [threw |-> TRUE, value |-> <<>>]
        ELSE [threw |-> FALSE,
              value |-> join([i \in 1..Len(words) |-> capitalize(words[i])])]

\* name: nonempty on the raw string; the transform runs only on a valid base
nameSchema(n) ==
    IF Len(n) < 1
    THEN [status |-> "dirty", value |-> n,
          issues |-> <<Issue(FieldPath("name"), MsgNameRequired)>>, late |-> <<>>]
    ELSE LET t == nameTransform(n)
         IN  [status |-> IF t.threw THEN "threw" ELSE "valid",
              value |-> t.value, issues |-> <<>>, late |-> <<>>]

\* zod's e-mail pattern (case-insensitive):
\*   ^(?!\.)(?!.*\.\.)([A-Z0-9_+-\.]*)[A-Z0-9_+-]@([A-Z0-9][A-Z0-9\-]*\.)+[A-Z]{2,}$
isEmail(s) ==
    \E at \in 1..Len(s) :
        /\ s[at] = "@"
        /\ LET local == SubSeq(s, 1, at - 1)
               dom == SubSeq(s, at + 1, Len(s))
           IN  /\ Len(local) >= 1
               /\ \A k \in 1..Len(local) :
                      IsAlnum(local[k]) \/ local[k] \in {"_", "+", "-", "."}
               /\ local[1] # "."
               /\ local[Len(local)] # "."
               /\ \A k \in 1..(Len(s) - 1) : ~(s[k] = "." /\ s[k + 1] = ".")
               /\ \E d \in 1..Len(dom) :
                      /\ dom[d] = "."
                      /\ Len(dom) - d >= 2
                      /\ \A k \in (d + 1)..Len(dom) :
                             IsLower(dom[k]) \/ IsUpper(dom[k])
                      /\ IsAlnum(dom[1])
                      /\ \A k \in 1..d :
                             IsAlnum(dom[k]) \/ dom[k] \in {"-", "."}
                      /\ \A k \in 1..(d - 1) :
                             dom[k] = "." => IsAlnum(dom[k + 1])

\* email: nonempty, email, toLowerCase; in App.tsx also the gmail refinement,
\* which sees the lower-cased value and runs even when the checks failed
emailSchema(v, e) ==
    LET required == IF Len(e) < 1
                    THEN <<Issue(FieldPath("email"), MsgEmailRequired)>> ELSE <<>>
        format == IF isEmail(e) THEN <<>>
                  ELSE <<Issue(FieldPath("email"), MsgEmailFormat)>>
        lowered == toLowerCase(e)
        gmail == IF v = "App" /\ ~endsWith(lowered, <<"g","m","a","i","l",".","c","o","m">>)
                 THEN <<Issue(FieldPath("email"), MsgEmailGmail)>> ELSE <<>>
        all == required \o format \o gmail
    IN  [status |-> IF all = <<>> THEN "valid" ELSE "dirty",
         value |-> lowered, issues |-> required \o format, late |-> gmail]

\* password: part_000 has nonempty and min(6); App.tsx has min(6) alone
passwordSchema(v, p) ==
    LET required == IF v = "part_000" /\ Len(p) < 1
                    THEN <<Issue(FieldPath("password"), MsgPasswordRequired)>>
                    ELSE <<>>
        min6 == IF Len(p) < 6
                THEN <<Issue(FieldPath("password"), MsgPasswordMin(v))>> ELSE <<>>
    IN  [status |-> IF required \o min6 = <<>> THEN "valid" ELSE "dirty",
         value |-> p, issues |-> required \o min6, late |-> <<>>]

\* One element of techs: title nonempty on the raw string; App.tsx adds
\* knowledge, coerced to a number, between 1 and 100.  part_000's object
\* schema has no knowledge key, and z.object strips unknown keys.
techItemIssues(v, t, i) ==
    (IF Len(t[i].title) < 1
     THEN <<Issue(TechPath(i - 1, "title"), MsgTitleRequired(v))>> ELSE <<>>)
    \o (IF v = "App" /\ t[i].knowledge < 1
        THEN <<Issue(TechPath(i - 1, "knowledge"), MsgKnowledgeMin)>> ELSE <<>>)
    \o (IF v = "App" /\ t[i].knowledge > 100
        THEN <<Issue(TechPath(i - 1, "knowledge"), MsgKnowledgeMax)>> ELSE <<>>)

techItemValue(v, item) ==
    IF v = "App" THEN [title |-> item.title, knowledge |-> item.knowledge]
    ELSE [title |-> item.title]

\* techs: the array's min(2) check first, then every element
techsSchema(v, t) ==
    LET min2 == IF Len(t) < 2
                THEN <<Issue(FieldPath("techs"), MsgMinTechs)>> ELSE <<>>
        items == Concat([i \in 1..Len(t) |-> techItemIssues(v, t, i)])
    IN  [status |-> IF min2 \o items = <<>> THEN "valid" ELSE "dirty",
         value |-> [i \in 1..Len(t) |-> techItemValue(v, t[i])],
         issues |-> min2 \o items, late |-> <<>>]

\* z.object({...}): every key is parsed, in the order of the shape; nothing
\* short-circuits.  An exception in any refinement or transform escapes.
objectResult(v, a, n, e, p, t, threw, issues) ==
    [status |-> IF threw THEN "threw"
                ELSE IF issues = <<>> THEN "valid" ELSE "dirty",
     issues |-> IF threw THEN <<>> ELSE issues,
     value |-> IF v = "part_000"
               THEN [avatar |-> a.value, name |-> n.value, email |-> e.value,
                     password |-> p.value, techs |-> t.value]
               ELSE [name |-> n.value, email |-> e.value,
                     password |-> p.value, techs |-> t.value]]

\* The issues of the keys in the order zod adds them: the checks of name,
\* email, password and techs as each key is parsed, then the refinements
\* (avatar's, the gmail one), which parseAsync settles afterwards
objectParse(v, a, n, e, p, t) ==
    objectResult(v, a, n, e, p, t,
                 (v = "part_000" /\ a.status = "threw") \/ n.status = "threw",
                 n.issues \o e.issues \o p.issues \o t.issues
                   \o (IF v = "part_000" THEN a.late ELSE <<>>) \o e.late)

createUserFormSchema(v, data) ==
    objectParse(v, avatarSchema(data.avatar), nameSchema(data.name),
                emailSchema(v, data.email), passwordSchema(v, data.password),
                techsSchema(v, data.techs))

\* The resolver keeps the first issue of each path
RECURSIVE parseErrorSchema(_, _)
parseErrorSchema(issues, acc) ==
    IF issues = <<>> THEN acc
    ELSE parseErrorSchema(
             Tail(issues),
             IF \E k \in 1..Len(acc) : acc[k].path = Head(issues).path
             THEN acc ELSE Append(acc, Head(issues)))

\* zodResolver(createUserFormSchema): parsed values on success, field errors
\* on a ZodError; any other exception is thrown again
resolverResult(r) ==
    IF r.status = "threw"
    THEN [status |-> "Threw", values |-> <<>>, errors |-> <<>>]
    ELSE IF r.status = "valid"
    THEN [status |-> "Valid", values |-> <<r.value>>, errors |-> <<>>]
    ELSE [status |-> "Invalid", values |-> <<>>,
          errors |-> parseErrorSchema(r.issues, <<>>)]

zodResolver(v, data) == resolverResult(createUserFormSchema(v, data))

-----------------------------------------------------------------------------
(* The form: react-hook-form's state and the handlers of App *)

None == <<>>

Some(x) == <<x>>

ErrorSet(errs) == {errs[i] : i \in 1..Len(errs)}

\* getValues(): what handleSubmit and the resolver read
FormValues(a, n, e, p, t) ==
    [avatar |-> a, name |-> n, email |-> e, password |-> p, techs |-> t]

\* useForm without `mode`/`reValidateMode`: nothing is validated before the
\* first submit; afterwards a change re-runs the resolver and replaces the
\* error entries of the changed field.  A resolver that throws rejects the
\* change handler's promise and leaves the errors as they were.
replaceErrors(errs, r, scope) ==
    IF r.status = "Threw" THEN errs
    ELSE {x \in errs : x.path \notin scope}
           \cup {x \in ErrorSet(r.errors) : x.path \in scope}

revalidate(errs, values, scope) ==
    IF ~isSubmitted THEN errs
    ELSE replaceErrors(errs, zodResolver(variant, values), scope)

\* No event handler runs between handleSubmit's promise continuations
Idle == pc = "idle"

\* <Form.Input type="file" name="avatar" /> (part_000 only)
EditAvatar(files) ==
    /\ Idle /\ variant = "part_000"
    /\ avatar' = files
    /\ errors' = revalidate(errors,
                            FormValues(files, name, email, password, techs),
                            {FieldPath("avatar")})
    /\ UNCHANGED <<variant, name, email, password, techs, isSubmitting,
                   isSubmitted, isSubmitSuccessful, output, pc, input, result,
                   pending, called, lastUpload>>

\* register('name')
EditName(v) ==
    /\ Idle
    /\ name' = v
    /\ errors' = revalidate(errors,
                            FormValues(avatar, v, email, password, techs),
                            {FieldPath("name")})
    /\ UNCHANGED <<variant, avatar, email, password, techs, isSubmitting,
                   isSubmitted, isSubmitSuccessful, output, pc, input, result,
                   pending, called, lastUpload>>

\* register('email')
EditEmail(v) ==
    /\ Idle
    /\ email' = v
    /\ errors' = revalidate(errors,
                            FormValues(avatar, name, v, password, techs),
                            {FieldPath("email")})
    /\ UNCHANGED <<variant, avatar, name, password, techs, isSubmitting,
                   isSubmitted, isSubmitSuccessful, output, pc, input, result,
                   pending, called, lastUpload>>

\* register('password')
EditPassword(v) ==
    /\ Idle
    /\ password' = v
    /\ errors' = revalidate(errors,
                            FormValues(avatar, name, email, v, techs),
                            {FieldPath("password")})
    /\ UNCHANGED <<variant, avatar, name, email, techs, isSubmitting,
                   isSubmitted, isSubmitSuccessful, output, pc, input, result,
                   pending, called, lastUpload>>

\* register(`techs.${index}.title`), index 0-based
EditTitle(index, v) ==
    /\ Idle
    /\ index + 1 \in 1..Len(techs)
    /\ techs' = [techs EXCEPT ![index + 1].title = v]
    /\ errors' = revalidate(errors,
                            FormValues(avatar, name, email, password, techs'),
                            {TechPath(index, "title")})
    /\ UNCHANGED <<variant, avatar, name, email, password, isSubmitting,
                   isSubmitted, isSubmitSuccessful, output, pc, input, result,
                   pending, called, lastUpload>>

\* register(`techs.${index}.knowledge`) (App.tsx only)
EditKnowledge(index, k) ==
    /\ Idle /\ variant = "App"
    /\ index + 1 \in 1..Len(techs)
    /\ techs' = [techs EXCEPT ![index + 1].knowledge = k]
    /\ errors' = revalidate(errors,
                            FormValues(avatar, name, email, password, techs'),
                            {TechPath(index, "knowledge")})
    /\ UNCHANGED <<variant, avatar, name, email, password, isSubmitting,
                   isSubmitted, isSubmitSuccessful, output, pc, input, result,
                   pending, called, lastUpload>>

\* addNewTech: append({ title: '', knowledge: 0 }); the field array then
\* re-validates its own path
addNewTech ==
    /\ Idle
    /\ Len(techs) < MaxTechs
    /\ techs' = Append(techs, [title |-> <<>>, knowledge |-> 0])
    /\ errors' = revalidate(errors,
                            FormValues(avatar, name, email, password, techs'),
                            {FieldPath("techs")})
    /\ UNCHANGED <<variant, avatar, name, email, password, isSubmitting,
                   isSubmitted, isSubmitSuccessful, output, pc, input, result,
                   pending, called, lastUpload>>

\* The error entries of the elements after a removed one move down with them
removeErrorsAt(errs, index) ==
    {IF x.path.field = "techs" /\ x.path.index > index
     THEN [x EXCEPT !.path.index = @ - 1] ELSE x :
       x \in {y \in errs : ~(y.path.field = "techs" /\ y.path.index = index)}}

\* remove(index): only part_000 renders the button
remove(index) ==
    /\ Idle /\ variant = "part_000"
    /\ index + 1 \in 1..Len(techs)
    /\ techs' = SubSeq(techs, 1, index) \o SubSeq(techs, index + 2, Len(techs))
    /\ errors' = revalidate(removeErrorsAt(errors, index),
                            FormValues(avatar, name, email, password, techs'),
                            {FieldPath("techs")})
    /\ UNCHANGED <<variant, avatar, name, email, password, isSubmitting,
                   isSubmitted, isSubmitSuccessful, output, pc, input, result,
                   pending, called, lastUpload>>

\* The submit button: part_000 renders it disabled={isSubmitting} (and a
\* disabled default button also blocks implicit submission); App.tsx renders
\* it always enabled.
SubmitEnabled_neverDisabled == TRUE

SubmitEnabled == variant = "part_000" => ~isSubmitting

\* onSubmit={handleSubmit(createUser)}: handleSubmit starts
Submit ==
    /\ Idle
    /\ SubmitEnabled
    /\ isSubmitting' = TRUE
    /\ input' = Some(FormValues(avatar, name, email, password, techs))
    /\ pc' = "validating"
    /\ called' = 0
    /\ lastUpload' = "none"
    /\ UNCHANGED <<variant, formVars, errors, isSubmitted, isSubmitSuccessful,
                   output, result, pending>>

\* resolver: zodResolver(createUserFormSchema)
Resolve ==
    /\ pc = "validating"
    /\ result' = Some(zodResolver(variant, input[1]))
    /\ pc' = "resolved"
    /\ UNCHANGED <<variant, formVars, errors, isSubmitting, isSubmitted,
                   isSubmitSuccessful, output, input, pending, called,
                   lastUpload>>

callsOnValid(r) == r.status = "Valid"

\* What handleSubmit hands to onValid: the resolver's values
onValidData_rawValues(r) ==
    IF variant = "part_000"
    THEN [avatar |-> input[1].avatar[1], name |-> input[1].name,
          email |-> input[1].email, password |-> input[1].password,
          techs |-> [i \in 1..Len(input[1].techs) |->
                        techItemValue(variant, input[1].techs[i])]]
    ELSE [name |-> input[1].name, email |-> input[1].email,
          password |-> input[1].password,
          techs |-> [i \in 1..Len(input[1].techs) |->
                        techItemValue(variant, input[1].techs[i])]]

onValidData(r) == r.values[1]

\* JSON.stringify(data, null, 2): a File serialises as {}
JsonEmptyObject == [size |-> 0, type |-> "{}"]

stringify(data) ==
    IF variant = "part_000" THEN [data EXCEPT !.avatar = JsonEmptyObject]
    ELSE data

\* The rest of handleSubmit: an exception of the resolver ends it (rejected
\* promise, state reset in `finally`); errors are stored; without errors
\* createUser is called.  createUser of part_000 suspends at the upload;
\* createUser of App.tsx sets the output at once.
Dispatch ==
    /\ pc = "resolved"
    /\ pc' = "idle"
    /\ input' = None
    /\ result' = None
    /\ LET r == result[1]
       IN  IF callsOnValid(r)
           THEN /\ errors' = {}
                /\ called' = called + 1
                /\ IF variant = "part_000"
                   THEN /\ pending' = Some(onValidData(r))
                        /\ UNCHANGED <<isSubmitting, isSubmitted,
                                       isSubmitSuccessful, output>>
                   ELSE /\ output' = Some(stringify(onValidData(r)))
                        /\ isSubmitting' = FALSE
                        /\ isSubmitted' = TRUE
                        /\ isSubmitSuccessful' = TRUE
                        /\ UNCHANGED pending
           ELSE /\ errors' = IF r.status = "Threw" THEN errors
                             ELSE ErrorSet(r.errors)
                /\ isSubmitting' = FALSE
                /\ isSubmitted' = TRUE
                /\ isSubmitSuccessful' = FALSE
                /\ UNCHANGED <<output, pending, called>>
    /\ UNCHANGED <<variant, formVars, lastUpload>>

\* createUser resumes after `await supabse.storage.from('test').upload(...)`:
\* the call resolves to { data, error }; `error` is read into a constant that
\* is never used, and the output is set in both cases.
UploadSettles(outcome) ==
    /\ Idle
    /\ pending # None
    /\ output' = Some(stringify(pending[1]))
    /\ pending' = None
    /\ lastUpload' = outcome
    /\ isSubmitting' = FALSE
    /\ isSubmitted' = TRUE
    /\ isSubmitSuccessful' = (errors = {})
    /\ UNCHANGED <<variant, formVars, errors, pc, input, result, called>>

\* const isPasswordStrong = new RegExp('(?=.*[a-z])(?=.*[A-Z])(?=.*[0-9])
\* (?=.*[^A-Za-z0-9])(?=.{8,})').test(userPassword): the pattern is not
\* anchored, so it succeeds when the look-aheads hold at some position
StrongAt(s, minLen) ==
    \E start \in 0..Len(s) :
        LET rest == SubSeq(s, start + 1, Len(s))
        IN  /\ \E i \in 1..Len(rest) : IsLower(rest[i])
            /\ \E i \in 1..Len(rest) : IsUpper(rest[i])
            /\ \E i \in 1..Len(rest) : IsDigit(rest[i])
            /\ \E i \in 1..Len(rest) : ~IsAlnum(rest[i])
            /\ Len(rest) >= minLen

isPasswordStrong_min6(pw) == StrongAt(pw, 6)

isPasswordStrong(pw) == StrongAt(pw, 8)

\* App.tsx, under the technologies list:
\*   {errors.techs && <span ...>{errors.password?.message}</span>}
\* None when the span is not rendered, Some("") when it renders nothing
techsErrorSpan ==
    IF \E x \in errors : x.path.field = "techs"
    THEN IF \E y \in errors : y.path = FieldPath("password")
         THEN Some((CHOOSE y \in errors : y.path = FieldPath("password")).message)
         ELSE Some("")
    ELSE None

-----------------------------------------------------------------------------
(* Inputs *)

Variants == {"part_000", "App"}

S_empty == <<>>
S_space == <<" ">>
S_ana == <<"a","n","a">>
S_aNa == <<"a","N","a">>
S_ana_padded == <<" ","a","n","a"," ">>
S_ana_paula == <<"a","n","a"," ","p","a","u","l","a">>
S_Ana_Paula == <<"A","n","a"," ","P","a","u","l","a">>
S_ana_paula_spaced == <<" ","a","n","a"," "," ","p","a","u","l","a"," ">>
S_a_b_double == <<"a"," "," ","b">>

S_USER_GMAIL == <<"U","S","E","R","@","G","M","A","I","L",".","C","O","M">>
S_a_b_co == <<"a","@","b",".","c","o">>
S_no_at == <<"a","b">>
S_no_tld == <<"a","@","b">>

S_abc12 == <<"a","b","c","1","2">>
S_abcdef == <<"a","b","c","d","e","f">>
S_abcdefgh == <<"a","b","c","d","e","f","g","h">>
S_strong == <<"A","b","c","d","e","f","1","#">>
S_strong7 == <<"A","b","c","d","e","1","#">>
S_noSymbol == <<"A","b","c","d","e","f","1","2">>
S_noLower == <<"A","B","C","D","E","F","1","#">>
S_noDigit == <<"A","b","c","d","e","f","g","#">>
S_noUpper == <<"a","b","c","d","e","f","1","#">>

S_r == <<"r">>

OkFile == [size |-> MAX_FILE_SIZE, type |-> "image/png"]
LargeFile == [size |-> 6000000, type |-> "image/png"]
LargeGif == [size |-> MAX_FILE_SIZE + 1, type |-> "image/gif"]

\* Lists of at most MaxTechs elements drawn from `items`
TechLists(items) == UNION {[1..n -> items] : n \in 0..MaxTechs}

\* The values a user enters during a session
\* (the user picks a file and does not clear the selection; in a session the
\* resolver's exception is reached through the initial, empty file list of
\* part_000, and names that raise it are examined under SpecPipeline)
SessionNames == {S_empty, S_ana}
SessionEmails == {S_empty, S_USER_GMAIL}
SessionPasswords == {S_empty, S_abcdefgh}
SessionTitles == {S_empty, S_r}
SessionKnowledge == {0, 50}
SessionAvatars == {<<OkFile>>}

\* The form contents the validation pipeline is examined on
Names == {S_empty, S_space, S_ana, S_aNa, S_ana_padded, S_ana_paula,
          S_Ana_Paula, S_ana_paula_spaced}
Emails == {S_empty, S_USER_GMAIL, S_a_b_co, S_no_at, S_no_tld}
Passwords == {S_empty, S_abc12, S_abcdef, S_abcdefgh, S_strong, S_strong7,
              S_noSymbol, S_noLower, S_noDigit, S_noUpper}
Avatars == {<<>>, <<OkFile>>, <<LargeFile>>, <<LargeGif>>}
TechItems(v) ==
    IF v = "App"
    THEN {[title |-> S_empty, knowledge |-> 0], [title |-> S_r, knowledge |-> 50],
          [title |-> S_space, knowledge |-> 50], [title |-> S_r, knowledge |-> 101]}
    ELSE {[title |-> S_empty, knowledge |-> 0], [title |-> S_space, knowledge |-> 0],
          [title |-> S_r, knowledge |-> 0]}

-----------------------------------------------------------------------------
(* Specifications *)

\* useForm's initial formState and useState('')
InitState ==
    /\ errors = {}
    /\ isSubmitting = FALSE
    /\ isSubmitted = FALSE
    /\ isSubmitSuccessful = FALSE
    /\ output = None
    /\ pc = "idle"
    /\ input = None
    /\ result = None
    /\ pending = None
    /\ called = 0
    /\ lastUpload = "none"

\* A form session: the page as mounted, then any sequence of events
Init ==
    /\ variant \in Variants
    /\ avatar = <<>>
    /\ name = S_empty
    /\ email = S_empty
    /\ password = S_empty
    /\ techs = <<>>
    /\ InitState

Next ==
    \/ \E files \in SessionAvatars : EditAvatar(files)
    \/ \E v \in SessionNames : EditName(v)
    \/ \E v \in SessionEmails : EditEmail(v)
    \/ \E v \in SessionPasswords : EditPassword(v)
    \/ \E i \in 0..(MaxTechs - 1), v \in SessionTitles : EditTitle(i, v)
    \/ \E i \in 0..(MaxTechs - 1), k \in SessionKnowledge : EditKnowledge(i, k)
    \/ addNewTech
    \/ \E i \in 0..(MaxTechs - 1) : remove(i)
    \/ Submit
    \/ Resolve
    \/ Dispatch
    \/ \E outcome \in {"ok", "error"} : UploadSettles(outcome)

Spec == Init /\ [][Next]_vars

\* The validation pipeline on its own: the first submit of a session, from
\* any contents the form can have been given before it
InitPipeline ==
    /\ variant \in Variants
    /\ name \in Names
    /\ email \in Emails
    /\ password \in Passwords
    /\ avatar \in (IF variant = "part_000" THEN Avatars ELSE {<<>>})
    /\ techs \in TechLists(TechItems(variant))
    /\ InitState

FirstSubmit == ~isSubmitted /\ Submit

NextPipeline == FirstSubmit \/ Resolve \/ Dispatch

SpecPipeline == InitPipeline /\ [][NextPipeline]_vars

-----------------------------------------------------------------------------
(* The rules of the specification, section 4.1, and its normalizers,       *)
(* section 4.2, written from the specification's text                      *)

RuleName(n) == trim(n) # <<>>

RuleEmail(e) == e # <<>> /\ isEmail(e)

RulePassword(p) == p # <<>> /\ Len(p) >= 6

RuleTechsCount(t) == Len(t) >= 2

RuleTitle(item) == trim(item.title) # <<>>

RuleAvatar(files) ==
    /\ Len(files) >= 1
    /\ files[1].size <= 5242880
    /\ files[1].type \in {"image/jpeg", "image/jpg", "image/png", "image/webp"}

\* The field paths whose rule the input violates (the avatar rule is enabled
\* in part_000 only)
When(cond, path) == IF cond THEN {path} ELSE {}

FailingPaths(v, in) ==
    When(v = "part_000" /\ ~RuleAvatar(in.avatar), FieldPath("avatar"))
    \cup When(~RuleName(in.name), FieldPath("name"))
    \cup When(~RuleEmail(in.email), FieldPath("email"))
    \cup When(~RulePassword(in.password), FieldPath("password"))
    \cup When(~RuleTechsCount(in.techs), FieldPath("techs"))
    \cup {TechPath(i - 1, "title") :
            i \in {j \in 1..Len(in.techs) : ~RuleTitle(in.techs[j])}}

\* The taxonomy of section 7 for each message of the schema
KindOf(message) ==
    CASE message = MsgAvatarRequired -> "Missing"
      [] message = MsgAvatarMaxSize -> "TooLarge"
      [] message = MsgAvatarFormat -> "UnsupportedType"
      [] message \in {MsgNameRequired, MsgEmailRequired, MsgPasswordRequired,
                      MsgTitleRequired("App"), MsgTitleRequired("part_000")}
           -> "EmptyField"
      [] message = MsgEmailFormat -> "InvalidFormat"
      [] message \in {MsgPasswordMin("App"), MsgPasswordMin("part_000")}
           -> "TooShort"
      [] message = MsgMinTechs -> "TooFew"
      [] OTHER -> "Other"

Entry(cond, path, kind) ==
    IF cond THEN <<[path |-> path, kind |-> kind]>> ELSE <<>>

\* One entry per failing rule, in field-declaration order
ExpectedErrors(v, in) ==
    (IF v # "part_000" THEN <<>>
     ELSE IF Len(in.avatar) = 0
     THEN <<[path |-> FieldPath("avatar"), kind |-> "Missing"]>>
     ELSE Entry(in.avatar[1].size > 5242880, FieldPath("avatar"), "TooLarge")
          \o Entry(in.avatar[1].type \notin
                       {"image/jpeg", "image/jpg", "image/png", "image/webp"},
                   FieldPath("avatar"), "UnsupportedType"))
    \o Entry(~RuleName(in.name), FieldPath("name"), "EmptyField")
    \o Entry(in.email = <<>>, FieldPath("email"), "EmptyField")
    \o Entry(~isEmail(in.email), FieldPath("email"), "InvalidFormat")
    \o Entry(in.password = <<>>, FieldPath("password"), "EmptyField")
    \o Entry(Len(in.password) < 6, FieldPath("password"), "TooShort")
    \o Entry(~RuleTechsCount(in.techs), FieldPath("techs"), "TooFew")
    \o Concat([i \in 1..Len(in.techs) |->
                  Entry(~RuleTitle(in.techs[i]), TechPath(i - 1, "title"),
                        "EmptyField")])

\* Section 4.2: split on runs of spaces, capitalize each word, single spaces
SpecWords(n) == SelectSeq(split(n), LAMBDA w : w # <<>>)

SpecCapitalize(w) ==
    [i \in 1..Len(w) |-> IF i = 1 THEN toUpperChar(w[i]) ELSE w[i]]

SpecTitleCase(n) ==
    join([i \in 1..Len(SpecWords(n)) |-> SpecCapitalize(SpecWords(n)[i])])

\* The NormalizedForm of section 3 for an input
ExpectedPayload(v, in) ==
    IF v = "part_000"
    THEN [avatar |-> in.avatar[1], name |-> SpecTitleCase(in.name),
          email |-> toLowerCase(in.email), password |-> in.password,
          techs |-> [i \in 1..Len(in.techs) |-> [title |-> in.techs[i].title]]]
    ELSE [name |-> SpecTitleCase(in.name), email |-> toLowerCase(in.email),
          password |-> in.password,
          techs |-> [i \in 1..Len(in.techs) |->
                        [title |-> in.techs[i].title,
                         knowledge |-> in.techs[i].knowledge]]]

CurrentValues == FormValues(avatar, name, email, password, techs)

ErrorKinds(errs) ==
    [i \in 1..Len(errs) |-> [path |-> errs[i].path, kind |-> KindOf(errs[i].message)]]

-----------------------------------------------------------------------------
(* Claims about the validation pipeline, checked under SpecPipeline *)

Resolved == pc = "resolved"

\* C2: the aggregate validator returns Valid exactly when every field
\* satisfies its rule of section 4.1; when some field violates its rule the
\* result is Invalid and holds an error of that field; no other rule makes an
\* input Invalid.
C2_ValidIffRulesHold ==
    Resolved =>
        LET in == input[1]
            r == result[1]
            failing == FailingPaths(variant, in)
        IN  /\ failing = {} => r.status = "Valid"
            /\ failing # {} =>
                   /\ r.status = "Invalid"
                   /\ \A path \in failing :
                          \E i \in 1..Len(r.errors) : r.errors[i].path = path
            /\ r.status = "Invalid" => failing # {}

\* C3: for every form input validation ends in a ValidationResult value:
\* failures are error entries addressed to a field of the input, and nothing
\* raises an exception.
C3_ErrorsAreData ==
    Resolved =>
        LET in == input[1]
            r == result[1]
        IN  /\ r.status \in {"Valid", "Invalid"}
            /\ r.status = "Invalid" =>
                   /\ r.errors # <<>>
                   /\ \A i \in 1..Len(r.errors) :
                          \/ r.errors[i].path.field
                                 \in {"avatar", "name", "email", "password"}
                          \/ /\ r.errors[i].path.field = "techs"
                             /\ r.errors[i].path.index \in -1..(Len(in.techs) - 1)

\* C4: for every name that passes the name rule, the normalized name is the
\* words of the input, each with its first character upper-cased, joined by
\* single spaces (" ana  paula " gives "Ana Paula").
C4_NameTitleCased ==
    (Resolved /\ RuleName(input[1].name)) =>
        /\ nameSchema(input[1].name).status = "valid"
        /\ nameSchema(input[1].name).value = SpecTitleCase(input[1].name)

C6_OneEntryPerFailingRule ==
    (Resolved /\ ExpectedErrors(variant, input[1]) # <<>>) =>
        /\ result[1].status = "Invalid"
        /\ ErrorKinds(result[1].errors) = ExpectedErrors(variant, input[1])

HasLower(pw) == \E i \in 1..Len(pw) : IsLower(pw[i])
HasUpper(pw) == \E i \in 1..Len(pw) : IsUpper(pw[i])
HasDigit(pw) == \E i \in 1..Len(pw) : IsDigit(pw[i])
HasSymbol(pw) == \E i \in 1..Len(pw) : ~IsAlnum(pw[i])

\* C9: the password-strength signal is true exactly when the current raw
\* password holds a lowercase letter, an uppercase letter, a digit and a
\* symbol and has at least 8 characters, whatever the rest of the form; and
\* it does not gate submission: an idle form not already submitting accepts
\* a submit, and a Valid result always reaches createUser with its payload.
C9_StrengthIsAdvisory ==
    /\ [](isPasswordStrong(password) <=>
              (HasLower(password) /\ HasUpper(password) /\ HasDigit(password)
               /\ HasSymbol(password) /\ Len(password) >= 8))
    /\ []((Idle /\ ~isSubmitting) => ENABLED Submit)
    /\ [][(Resolved /\ result[1].status = "Valid") =>
              /\ called' = called + 1
              /\ variant = "part_000" => pending' = Some(result[1].values[1])
              /\ variant = "App" => output' = Some(result[1].values[1])]_vars

\* C9 witness: createUser was invoked although the signal is false
C9_Witness ==
    /\ variant = "part_000"
    /\ called = 1
    /\ pending # None
    /\ pending[1].password = password
    /\ ~isPasswordStrong(password)

-----------------------------------------------------------------------------
(* Claims about a form session, checked under Spec *)

\* What createUser was given: it holds it while the upload is awaited
\* (part_000) or renders it at once (App.tsx)
HandlerArg == IF variant = "part_000" THEN pending ELSE output

\* C1: over every sequence of edits, addNewTech, remove and submit events,
\* createUser is invoked only by a submit whose current form input the
\* resolver found Valid, at most once for that submit, with exactly the
\* normalized payload; a submit with an Invalid result never invokes it.
C1_HandlerOnlyOnValid ==
    /\ [](called <= 1)
    /\ [][called' > called =>
              /\ Resolved
              /\ input[1] = CurrentValues
              /\ result[1].status = "Valid"
              /\ called' = 1
              /\ HandlerArg' = Some(ExpectedPayload(variant, input[1]))]_vars
    /\ [][(Resolved /\ result[1].status = "Invalid") =>
              (called' = called /\ UNCHANGED <<pending, output>>)]_vars

\* C1 witness: after edits and two addNewTech, a submit has invoked
\* createUser with a payload whose name differs from the raw name
C1_Witness ==
    /\ called = 1
    /\ Len(techs) = 2
    /\ HandlerArg # None
    /\ HandlerArg[1].name = SpecTitleCase(name)
    /\ HandlerArg[1].name # name

\* C7: when the awaited upload fails, the failure is reported as a condition
\* an observer can tell from success (the submission does not present as
\* successful), the upload was awaited once, and the payload is still there.
C7_UploadFailureReported ==
    (Idle /\ lastUpload = "error") =>
        /\ ~isSubmitSuccessful
        /\ called = 1
        /\ output # None

\* C8: while a submission is in flight (createUser awaits the upload), no
\* submit event starts validation and createUser is not invoked again.
C8_OnePipelineAtATime ==
    [][pending # None => (pc' = "idle" /\ called' = called)]_vars

\* C8 witness: an upload is awaited, the form has been edited meanwhile, and
\* a submit is not accepted
C8_Witness ==
    /\ pending # None
    /\ isSubmitting
    /\ pending[1].password # password
    /\ ~ENABLED Submit

\* C10: in App.tsx, after a rejected submit in which the technologies list
\* has fewer than 2 entries, the message under the list is the techs rule's
\* own message, whatever the other fields.
C10_TechsMessageShown ==
    (variant = "App" /\ Idle /\ isSubmitted
       /\ \E x \in errors : x.path = FieldPath("techs"))
        => techsErrorSpan = Some(MsgMinTechs)

====
